---- MODULE Spec2Model ----
(***************************************************************************)
(* Model of the CSV ingestion pipeline of CensoEscolarData                 *)
(* (src/migrate_csv_to_sqlite.py): chunked read, column resolution, region *)
(* filter, per-row normalisation, INSERT OR IGNORE bulk write with a       *)
(* commit per chunk, and the progress/summary report.                      *)
(*                                                                         *)
(* A CSV cell is a sequence of one-character strings.  A row is a function *)
(* from the header's column names to cells.  The store is the sequence of  *)
(* committed rows of tb_instituicao (the surrogate id of a row is its      *)
(* position) plus the rows of the connection's open transaction.           *)
(***************************************************************************)
EXTENDS Integers, Sequences, FiniteSets, TLC

\* ------------------------------------------------------------ bounds
\* Longest source file, in data rows.
MaxRows == 3
\* Largest chunk size passed to migrate_csv.
MaxChunk == 2

\* ------------------------------------------------------------ constants
\* Region filter range (between(21, 29) / range(21, 30)).
UF_LOW == 21
UF_HIGH == 29

None == "None"
\* pandas' missing value (float nan) in a column read with dtype=str.
NaN == <<"NaN">>
\* Cells pd.read_csv turns into NaN (part of its default na_values).
NA_VALUES == {<< >>, <<"N", "A">>}

Digits == <<"0", "1", "2", "3", "4", "5", "6", "7", "8", "9">>
DigitChars == {Digits[i] : i \in 1..10}
DigitOf(c) == (CHOOSE i \in 1..10 : Digits[i] = c) - 1

Min(S) == CHOOSE x \in S : \A y \in S : x <= y

\* ------------------------------------------------------------ column resolver
CANDIDATE_COLUMNS ==
  [codigo |-> <<"CO_ENTIDADE", "CO_ENTIDADE_ESCOLA", "CO_ENTIDADE_MEC",
                "COD_ENTIDADE", "CO_ENTIDADE_ENSINO", "CO_ENTIDADE_CURSO">>,
   nome |-> <<"NO_ENTIDADE", "NO_ESCOLA", "NOME_ENTIDADE">>,
   co_uf |-> <<"CO_UF">>,
   co_municipio |-> <<"CO_MUNICIPIO">>,
   qt_mat_bas |-> <<"QT_MAT_BAS", "NU_MATRICULAS_BASICA", "QT_MATRICULAS_BAS">>,
   qt_mat_prof |-> <<"QT_MAT_PROF", "NU_MATRICULAS_PROF">>,
   qt_mat_esp |-> <<"QT_MAT_ESP", "NU_MATRICULAS_ESP">>]

Fields == DOMAIN CANDIDATE_COLUMNS
IntFields == {"co_municipio", "qt_mat_bas", "qt_mat_prof", "qt_mat_esp"}

\* A resolver that returns the last candidate present instead of the first.
find_column_last(columns, candidates) ==
  LET hits == {i \in 1..Len(candidates) : candidates[i] \in columns}
  IN IF hits = {} THEN None ELSE candidates[CHOOSE i \in hits : \A j \in hits : j <= i]

\* The loop of lines 34-37: the first candidate, in declared order, that is
\* in columns; None when there is none.
find_column(columns, candidates) ==
  LET hits == {i \in 1..Len(candidates) : candidates[i] \in columns}
  IN IF hits = {} THEN None ELSE candidates[Min(hits)]

\* The per-chunk mapping of lines 73-79.
resolve(columns) == [f \in Fields |-> find_column(columns, CANDIDATE_COLUMNS[f])]

\* The test of line 94.
essential_missing(cols) ==
  cols.codigo = None \/ cols.nome = None \/ cols.co_uf = None

\* ------------------------------------------------------------ text and numbers
\* pd.read_csv(dtype=str): a cell is its text, or NaN.
read_cell(raw) == IF raw \in NA_VALUES THEN NaN ELSE raw

isna(v) == v = NaN

\* str(v): the text itself; 'nan' for NaN.
str(v) == IF isna(v) THEN <<"n", "a", "n">> ELSE v

IsIntText(s) == Len(s) > 0 /\ \A i \in 1..Len(s) : s[i] \in DigitChars

RECURSIVE IntValue(_)
IntValue(s) ==
  IF s = << >> THEN 0
  ELSE 10 * IntValue(SubSeq(s, 1, Len(s) - 1)) + DigitOf(s[Len(s)])

RECURSIVE ToDigits(_)
ToDigits(n) ==
  IF n < 10 THEN <<Digits[n + 1]>>
  ELSE Append(ToDigits(n \div 10), Digits[(n % 10) + 1])

\* pd.to_numeric(errors='coerce') on one cell: a number, or nan.
to_numeric(v) ==
  IF isna(v) \/ ~IsIntText(v) THEN [nan |-> TRUE, v |-> 0]
  ELSE [nan |-> FALSE, v |-> IntValue(v)]

\* Series.between(lo, hi): nan is never between.
between(x, lo, hi) == ~x.nan /\ lo <= x.v /\ x.v <= hi

\* Series.astype(str) of a numeric column: float64 when it holds a nan.
astype_str(x, isfloat) ==
  IF x.nan THEN <<"n", "a", "n">>
  ELSE ToDigits(x.v) \o (IF isfloat THEN <<".", "0">> ELSE << >>)

\* tuple(str(x) for x in range(21, 30))
UF_PREFIXES == {ToDigits(x) : x \in UF_LOW..UF_HIGH}

startswith(s, prefixes) ==
  \E p \in prefixes : Len(p) <= Len(s) /\ SubSeq(s, 1, Len(p)) = p

\* A coercion that drops the characters that are no digits and parses the rest.
coerce_int_keep(col, row) ==
  IF col = None THEN 0
  ELSE LET x == read_cell(row[col])
       IN IF isna(x) THEN 0 ELSE IntValue(SelectSeq(x, LAMBDA c : c \in DigitChars))

\* int(x) if col and not isna(x) else 0, with except -> 0, on a text cell.
coerce_int(col, row) ==
  IF col = None THEN 0
  ELSE LET x == read_cell(row[col])
       IN IF isna(x) THEN 0 ELSE IF IsIntText(x) THEN IntValue(x) ELSE 0

\* ------------------------------------------------------------ source files
\* Cell texts used by the input files.
T_111 == <<"1", "1", "1">>
T_222 == <<"2", "2", "2">>
T_333 == <<"3", "3", "3">>
T_444 == <<"4", "4", "4">>
T_999 == <<"9", "9", "9">>
T_A == <<"A">>
T_ADup == <<"A", "D">>
T_B == <<"B">>
T_C == <<"C">>
T_21 == <<"2", "1">>
T_23 == <<"2", "3">>
T_29 == <<"2", "9">>
T_230 == <<"2", "3", "0">>
T_30 == <<"3", "0">>
T_2 == <<"2">>
T_x == <<"x">>
T_NA == <<"N", "A">>
T_empty == << >>

HeaderFull ==
  {"CO_ENTIDADE", "NO_ENTIDADE", "CO_UF", "CO_MUNICIPIO",
   "QT_MAT_BAS", "QT_MAT_PROF", "QT_MAT_ESP"}
\* A mandatory column (nome) has no candidate in the header.
HeaderNoName == HeaderFull \ {"NO_ENTIDADE"}
\* Another vintage: two candidates of codigo, alternative names, and no
\* municipality or professional-enrollment column.
HeaderAlt ==
  {"CO_ENTIDADE_MEC", "CO_ENTIDADE", "NO_ESCOLA", "CO_UF",
   "NU_MATRICULAS_BASICA", "QT_MAT_ESP"}

FieldOf(c) ==
  CHOOSE f \in Fields : \E i \in 1..Len(CANDIDATE_COLUMNS[f]) : CANDIDATE_COLUMNS[f][i] = c

\* Whether a candidate declared before c, for the same field, is in the header.
Shadowed(header, c) ==
  LET cand == CANDIDATE_COLUMNS[FieldOf(c)]
      k == CHOOSE i \in 1..Len(cand) : cand[i] = c
  IN \E j \in 1..(k - 1) : cand[j] \in header

\* The CSV row of a header holding vals in each field's first present
\* column, and another text in the columns that column shadows.
MkRow(header, vals) ==
  [c \in header |-> IF Shadowed(header, c) THEN T_999 ELSE vals[FieldOf(c)]]

Vals(codigo, nome, co_uf, mun, bas, prof, esp) ==
  [codigo |-> codigo, nome |-> nome, co_uf |-> co_uf, co_municipio |-> mun,
   qt_mat_bas |-> bas, qt_mat_prof |-> prof, qt_mat_esp |-> esp]

\* Rows of the multi-row files: a code repeated with another name, a second
\* code, and a row without code.
PipelineVals ==
  {Vals(T_111, T_A, T_23, T_2, T_2, T_2, T_2),
   Vals(T_111, T_ADup, T_29, T_2, T_2, T_2, T_2),
   Vals(T_222, T_B, T_21, T_2, T_2, T_2, T_2),
   Vals(T_empty, T_C, T_23, T_2, T_2, T_2, T_2)}

\* Rows over the region texts: in range, out of range (230, 30, 2),
\* unparsable and missing.
RegionVals ==
  {Vals(T_444, T_C, uf, T_2, T_2, T_2, T_2) :
     uf \in {T_21, T_29, T_230, T_30, T_2, T_x, T_empty, T_NA}}

\* Rows over the integer fields: missing, unparsable, or a number of the
\* field's own.
CoercionVals ==
  {Vals(T_111, T_A, T_23, mun, bas, prof, esp) :
     mun \in {T_empty, T_x, T_230}, bas \in {T_NA, T_x, T_21},
     prof \in {T_empty, <<"1", "x">>, T_30}, esp \in {T_empty, T_x, <<"7">>}}

SeqsUpTo(S, n) == UNION {[1..k -> S] : k \in 1..n}

MkFile(h, vs) == [header |-> h, rows |-> [i \in DOMAIN vs |-> MkRow(h, vs[i])]]

Files ==
  \* full header, every sequence of pipeline rows
  {MkFile(HeaderFull, vs) : vs \in SeqsUpTo(PipelineVals, MaxRows)}
  \cup
  \* a region row followed by an in-range row
  {MkFile(HeaderFull, <<v, Vals(T_111, T_A, T_23, T_2, T_2, T_2, T_2)>>) :
     v \in RegionVals}
  \cup
  \* one row over the integer fields
  {MkFile(HeaderFull, <<v>>) : v \in CoercionVals}
  \cup
  \* headers of other vintages
  {MkFile(h, vs) :
     h \in {HeaderNoName, HeaderAlt},
     vs \in SeqsUpTo({Vals(T_111, T_A, T_23, T_x, T_21, T_30, T_empty),
                      Vals(T_222, T_B, T_29, T_2, T_x, T_2, <<"7">>)}, 2)}

\* ------------------------------------------------------------ state
VARIABLES
  file,            \* the source CSV: [header, rows]
  chunk_size,      \* rows per chunk
  filter_nordeste, \* whether the region filter is applied
  betweenRaises,   \* whether the installed pandas rejects between(inclusive=True)
  tb_instituicao,  \* committed rows of the table, in insertion order
  conn_view,       \* the table as the open connection sees it (with uncommitted rows)
  total_changes,   \* conn.total_changes
  pc,              \* "idle", "loop", "done" or "failed"
  pos,             \* data rows the reader has consumed
  dry_run,
  fast,
  chunk_idx,
  inserted_total,
  skipped_total,
  processed_total,
  lastLine,        \* the last per-chunk progress line printed, or None
  summary,         \* the final summary line of the last finished run, or None
  lastBatch,       \* history: what the last reported chunk read, kept, submitted and added
  accepted,        \* history: the codes submitted to a committed write
  tbAtStart,       \* history: the table when the current run started
  prior,           \* history: how earlier runs over this store ended
  header_in,       \* a header handed to the column resolver on its own
  resolved         \* the resolver's last answer for header_in: [field, column]

vars ==
  <<file, chunk_size, filter_nordeste, betweenRaises, tb_instituicao, conn_view,
    total_changes, pc, pos, dry_run, fast, chunk_idx, inserted_total,
    skipped_total, processed_total, lastLine, summary, lastBatch, accepted,
    tbAtStart, prior, header_in, resolved>>

\* The resolver's own state, which the pipeline leaves alone.
resolver == <<header_in, resolved>>

env == <<file, chunk_size, filter_nordeste, betweenRaises>>

\* ------------------------------------------------------------ batch reader
\* The chunk pd.read_csv(chunksize=n) yields after p rows were consumed.
read_chunk(rows, p, n) ==
  SubSeq(rows, p + 1, IF p + n <= Len(rows) THEN p + n ELSE Len(rows))

\* ------------------------------------------------------------ region filter
\* Whether a row passes lines 101-106.  The column is assigned its numeric
\* conversion first; when between() raises, the except branch tests the
\* text of that numeric column against the prefixes "21".."29".
keep_row(row, co_uf_col, raises, isfloat) ==
  LET x == to_numeric(read_cell(row[co_uf_col]))
  IN IF ~raises THEN between(x, UF_LOW, UF_HIGH)
     ELSE startswith(astype_str(x, isfloat), UF_PREFIXES)

region_filter(chunk, co_uf_col, enabled, raises) ==
  IF ~enabled THEN chunk
  ELSE LET isfloat == \E i \in 1..Len(chunk) : to_numeric(read_cell(chunk[i][co_uf_col])).nan
       IN SelectSeq(chunk, LAMBDA r : keep_row(r, co_uf_col, raises, isfloat))

\* ------------------------------------------------------------ row normalizer
\* co_uf_val of line 126: the column is numeric after the filter ran, text
\* otherwise.
co_uf_value(row, co_uf_col, enabled) ==
  IF enabled
    THEN LET x == to_numeric(read_cell(row[co_uf_col])) IN IF x.nan THEN 0 ELSE x.v
    ELSE coerce_int(co_uf_col, row)

\* The tuple of line 146.
normalize(row, cols, enabled) ==
  [codigo |-> str(read_cell(row[cols.codigo])),
   nome |-> str(read_cell(row[cols.nome])),
   co_uf |-> co_uf_value(row, cols.co_uf, enabled),
   co_municipio |-> coerce_int(cols.co_municipio, row),
   qt_mat_bas |-> coerce_int(cols.qt_mat_bas, row),
   qt_mat_prof |-> coerce_int(cols.qt_mat_prof, row),
   qt_mat_esp |-> coerce_int(cols.qt_mat_esp, row)]

\* A check that never finds the row.
exists_never(view, codigo) == FALSE

\* SELECT id FROM tb_instituicao WHERE codigo = ? ... fetchone() is not None
exists_in_db(view, codigo) ==
  \E i \in 1..Len(view) : view[i].codigo = str(codigo)

\* A loop that does not stop at a row without code.
RECURSIVE row_loop_nocheck(_, _, _, _, _)
row_loop_nocheck(frame, i, cols, enabled, view) ==
  IF i > Len(frame) THEN [insert_rows |-> << >>, skipped |-> 0]
  ELSE LET rest == row_loop_nocheck(frame, i + 1, cols, enabled, view)
           codigo == read_cell(frame[i][cols.codigo])
       IN IF exists_in_db(view, codigo)
            THEN [rest EXCEPT !.skipped = @ + 1]
            ELSE [rest EXCEPT !.insert_rows = <<normalize(frame[i], cols, enabled)>> \o @]

\* The loop of lines 112-147 from row i on: the rows to insert, and the
\* number of rows skipped (no code, or code already in the table).
RECURSIVE row_loop(_, _, _, _, _)
row_loop(frame, i, cols, enabled, view) ==
  IF i > Len(frame) THEN [insert_rows |-> << >>, skipped |-> 0]
  ELSE LET rest == row_loop(frame, i + 1, cols, enabled, view)
           codigo == read_cell(frame[i][cols.codigo])
       IN IF isna(codigo) THEN [rest EXCEPT !.skipped = @ + 1]
          ELSE IF exists_in_db(view, codigo) THEN [rest EXCEPT !.skipped = @ + 1]
          ELSE [rest EXCEPT !.insert_rows = <<normalize(frame[i], cols, enabled)>> \o @]

\* ------------------------------------------------------------ bulk writer
\* INSERT OR REPLACE: a conflicting row is replaced by the new one.
RECURSIVE InsertOrReplace(_, _, _)
InsertOrReplace(view, rows, changes) ==
  IF rows = << >> THEN [view |-> view, changes |-> changes]
  ELSE LET r == Head(rows)
       IN InsertOrReplace(
            Append(SelectSeq(view, LAMBDA v : v.codigo /= r.codigo), r),
            Tail(rows), changes + 1)

\* A write that appends every row, conflicting or not.
RECURSIVE InsertPlain(_, _, _)
InsertPlain(view, rows, changes) ==
  IF rows = << >> THEN [view |-> view, changes |-> changes]
  ELSE InsertPlain(Append(view, Head(rows)), Tail(rows), changes + 1)

\* The uniqueness constraint on tb_instituicao(codigo) that the schema
\* declares: whether row r conflicts with a row of the table.
unique_conflict(view, r) == \E i \in 1..Len(view) : view[i].codigo = r.codigo

\* executemany("INSERT OR IGNORE ..."): each row in turn is appended unless
\* it conflicts with a row of the table; total_changes counts the rows
\* appended.
RECURSIVE InsertOrIgnore(_, _, _)
InsertOrIgnore(view, rows, changes) ==
  IF rows = << >> THEN [view |-> view, changes |-> changes]
  ELSE LET r == Head(rows)
       IN IF unique_conflict(view, r)
            THEN InsertOrIgnore(view, Tail(rows), changes)
            ELSE InsertOrIgnore(Append(view, r), Tail(rows), changes + 1)

\* A writer that ignores dry_run.
should_write_always(insert_rows, dry) == insert_rows /= << >>

\* Lines 154 and 159: the write happens for a non-empty list outside dry-run.
should_write(insert_rows, dry) == insert_rows /= << >> /\ ~dry

\* A commit that is left out: the table on disk stays as it was.
commit_missing(isfast, table, view) == table

\* conn.commit(), taken in fast mode and in normal mode alike: the table on
\* disk becomes the connection's view.
commit(isfast, table, view) == IF isfast THEN view ELSE view

\* ------------------------------------------------------------ report
NoLine ==
  [chunk |-> 0, total_in_chunk |-> 0, total_filtered |-> 0, new_inserts |-> 0,
   duplicates_in_db |-> 0]
NoSummary == [printed |-> FALSE, processed |-> 0, inserted |-> 0, skipped |-> 0]
NoBatch ==
  [valid |-> FALSE, from |-> 0, read |-> 0, kept |-> 0, src |-> << >>,
   insert_rows |-> << >>, added |-> 0, missing |-> 0, existing |-> 0,
   skipped_before |-> 0]

\* The line of line 183: after the filter, chunk is the filtered frame,
\* and new_inserts prints len(insert_rows).
progress_line(idx, frame, insert_rows, dup_count) ==
  [chunk |-> idx, total_in_chunk |-> Len(frame), total_filtered |-> Len(frame),
   new_inserts |-> Len(insert_rows), duplicates_in_db |-> dup_count]

NoResolution == [field |-> None, column |-> None]

\* ------------------------------------------------------------ actions
Init ==
  /\ file \in Files
  /\ chunk_size \in 1..MaxChunk
  \* a chunk size beyond the file's length reads the file as one chunk
  /\ chunk_size <= Len(file.rows)
  /\ filter_nordeste \in BOOLEAN
  /\ betweenRaises \in BOOLEAN
  \* between() is only called with the filter on
  /\ ~filter_nordeste => ~betweenRaises
  /\ tb_instituicao = << >>
  /\ conn_view = << >>
  /\ total_changes = 0
  /\ pc = "idle"
  /\ pos = 0
  /\ dry_run = FALSE
  /\ fast = FALSE
  /\ chunk_idx = 0
  /\ inserted_total = 0
  /\ skipped_total = 0
  /\ processed_total = 0
  /\ lastLine = NoLine
  /\ summary = NoSummary
  /\ lastBatch = NoBatch
  /\ accepted = {}
  /\ tbAtStart = << >>
  /\ prior = [completed |-> FALSE, partial |-> FALSE]
  /\ header_in = {}
  /\ resolved = NoResolution

\* migrate_csv is called (lines 47-66): schema loaded, a new connection,
\* the counters at zero.
StartRun(d, f) ==
  /\ pc \in {"idle", "done", "failed"}
  /\ pc' = "loop"
  /\ dry_run' = d
  /\ fast' = f
  /\ conn_view' = tb_instituicao
  /\ total_changes' = 0
  /\ pos' = 0
  /\ chunk_idx' = 0
  /\ inserted_total' = 0
  /\ skipped_total' = 0
  /\ processed_total' = 0
  /\ lastLine' = NoLine
  /\ summary' = NoSummary
  /\ lastBatch' = NoBatch
  /\ tbAtStart' = tb_instituicao
  /\ prior' = [completed |-> prior.completed \/ (pc = "done" /\ ~dry_run),
               partial |-> pc = "failed" /\ ~dry_run
                           /\ Len(tb_instituicao) > Len(tbAtStart)]
  /\ UNCHANGED <<env, resolver, tb_instituicao, accepted>>

\* One iteration of the loop of lines 68-183.
ProcessChunk ==
  /\ pc = "loop"
  /\ pos < Len(file.rows)
  /\ LET chunk == read_chunk(file.rows, pos, chunk_size)
         cols == resolve(file.header)
     IN /\ pos' = pos + Len(chunk)
        /\ processed_total' = processed_total + Len(chunk)
        /\ IF essential_missing(cols)
             THEN UNCHANGED <<tb_instituicao, conn_view, total_changes, chunk_idx,
                              inserted_total, skipped_total, lastLine, lastBatch,
                              accepted>>
             ELSE LET frame == region_filter(chunk, cols.co_uf, filter_nordeste, betweenRaises)
                      loop == row_loop(frame, 1, cols, filter_nordeste, conn_view)
                      insert_rows == loop.insert_rows
                      writes == should_write(insert_rows, dry_run)
                      ins == IF writes
                               THEN InsertOrIgnore(conn_view, insert_rows, total_changes)
                               ELSE [view |-> conn_view, changes |-> total_changes]
                      added == IF writes THEN ins.changes - total_changes ELSE 0
                      dup_count == IF insert_rows /= << >> THEN Len(insert_rows) - added ELSE 0
                  IN /\ conn_view' = ins.view
                     /\ tb_instituicao' =
                          IF writes THEN commit(fast, tb_instituicao, ins.view)
                          ELSE tb_instituicao
                     /\ total_changes' = ins.changes
                     /\ skipped_total' = skipped_total + loop.skipped
                     /\ inserted_total' = inserted_total + added
                     /\ chunk_idx' = chunk_idx + 1
                     /\ lastLine' = progress_line(chunk_idx + 1, frame, insert_rows, dup_count)
                     /\ accepted' =
                          IF writes
                            THEN accepted \cup {insert_rows[i].codigo : i \in 1..Len(insert_rows)}
                            ELSE accepted
                     /\ lastBatch' =
                          [valid |-> TRUE, from |-> pos, read |-> Len(chunk),
                           kept |-> Len(frame),
                           src |-> SelectSeq(frame, LAMBDA r :
                                     ~isna(read_cell(r[cols.codigo]))
                                     /\ ~exists_in_db(conn_view, read_cell(r[cols.codigo]))),
                           insert_rows |-> insert_rows,
                           added |-> Len(ins.view) - Len(conn_view),
                           missing |-> Cardinality({i \in 1..Len(frame) :
                                         isna(read_cell(frame[i][cols.codigo]))}),
                           existing |-> Cardinality({i \in 1..Len(frame) :
                                         /\ ~isna(read_cell(frame[i][cols.codigo]))
                                         /\ exists_in_db(conn_view, read_cell(frame[i][cols.codigo]))}),
                           skipped_before |-> skipped_total]
  /\ UNCHANGED <<env, resolver, pc, dry_run, fast, summary, tbAtStart, prior>>

\* The reader is exhausted: conn.close() and the summary line (185-187).
\* Closing the connection discards what it did not commit.
Finish ==
  /\ pc = "loop"
  /\ pos = Len(file.rows)
  /\ pc' = "done"
  /\ conn_view' = tb_instituicao
  /\ summary' = [printed |-> TRUE, processed |-> processed_total,
                 inserted |-> inserted_total, skipped |-> skipped_total]
  /\ UNCHANGED <<env, resolver, tb_instituicao, total_changes, pos, dry_run, fast, chunk_idx,
                 inserted_total, skipped_total, processed_total, lastLine,
                 lastBatch, accepted, tbAtStart, prior>>

\* The run fails while a chunk is being read or processed (an exception
\* leaves the loop, or the process dies): nothing of that chunk was
\* committed, and the connection's uncommitted rows are rolled back.
Fail ==
  /\ pc = "loop"
  /\ pos < Len(file.rows)
  /\ pc' = "failed"
  /\ conn_view' = tb_instituicao
  /\ UNCHANGED <<env, resolver, tb_instituicao, total_changes, pos, dry_run, fast, chunk_idx,
                 inserted_total, skipped_total, processed_total, lastLine, summary,
                 lastBatch, accepted, tbAtStart, prior>>

Next ==
  \/ \E d \in BOOLEAN, f \in BOOLEAN : StartRun(d, f)
  \/ ProcessChunk
  \/ Finish
  \/ Fail

Spec == Init /\ [][Next]_vars

\* ------------------------------------------------------------ the resolver alone
\* Most columns of a header drawn from all the candidate names.
MaxHeader == 2

\* A column no field has as a candidate.
OtherColumn == "SG_UF"

CandidatesOf(f) == {CANDIDATE_COLUMNS[f][i] : i \in 1..Len(CANDIDATE_COLUMNS[f])}

AllColumns == UNION {CandidatesOf(f) : f \in Fields} \cup {OtherColumn}

RECURSIVE SubsetsUpTo(_, _)
SubsetsUpTo(S, k) ==
  IF k = 0 THEN {{}}
  ELSE LET P == SubsetsUpTo(S, k - 1) IN P \cup {q \cup {x} : q \in P, x \in S}

\* Every subset of one field's candidates, with or without a column of
\* another kind, and every header of at most MaxHeader columns.
ResolverHeaders ==
  UNION {{h \cup e : h \in SUBSET CandidatesOf(f), e \in {{}, {OtherColumn}}} : f \in Fields}
  \cup SubsetsUpTo(AllColumns, MaxHeader)

pipeline ==
  <<file, chunk_size, filter_nordeste, betweenRaises, tb_instituicao, conn_view,
    total_changes, pc, pos, dry_run, fast, chunk_idx, inserted_total,
    skipped_total, processed_total, lastLine, summary, lastBatch, accepted,
    tbAtStart, prior>>

\* A header, and the pipeline at rest over an empty store.
InitResolver ==
  /\ header_in \in ResolverHeaders
  /\ resolved = NoResolution
  /\ file = MkFile(HeaderFull, <<Vals(T_111, T_A, T_23, T_2, T_2, T_2, T_2)>>)
  /\ chunk_size = 1
  /\ filter_nordeste = TRUE
  /\ betweenRaises = FALSE
  /\ tb_instituicao = << >>
  /\ conn_view = << >>
  /\ total_changes = 0
  /\ pc = "idle"
  /\ pos = 0
  /\ dry_run = FALSE
  /\ fast = FALSE
  /\ chunk_idx = 0
  /\ inserted_total = 0
  /\ skipped_total = 0
  /\ processed_total = 0
  /\ lastLine = NoLine
  /\ summary = NoSummary
  /\ lastBatch = NoBatch
  /\ accepted = {}
  /\ tbAtStart = << >>
  /\ prior = [completed |-> FALSE, partial |-> FALSE]

\* find_column is called for field f, as on lines 73-79.
ResolveField(f) ==
  /\ resolved' = [field |-> f, column |-> find_column(header_in, CANDIDATE_COLUMNS[f])]
  /\ UNCHANGED <<header_in, pipeline>>

NextResolver == \E f \in Fields : ResolveField(f)

SpecResolver == InitResolver /\ [][NextResolver]_vars

\* ------------------------------------------------------------ reference notions
Codes(t) == {t[i].codigo : i \in 1..Len(t)}

UniqueCodes(t) ==
  \A i, j \in 1..Len(t) : t[i].codigo = t[j].codigo => i = j

IsPrefix(a, b) == Len(a) <= Len(b) /\ SubSeq(b, 1, Len(a)) = a

\* t with, of the rows sharing a codigo, only the first.
RECURSIVE DedupFirst(_)
DedupFirst(t) ==
  IF t = << >> THEN << >>
  ELSE LET init == DedupFirst(SubSeq(t, 1, Len(t) - 1))
           last == t[Len(t)]
       IN IF last.codigo \in Codes(init) THEN init ELSE Append(init, last)

\* What an uninterrupted run over the first p rows of the file, read as one
\* batch into an empty table, stores.
ExpectedUpTo(p) ==
  LET cols == resolve(file.header)
  IN IF essential_missing(cols) THEN << >>
     ELSE LET kept == SelectSeq(SubSeq(file.rows, 1, p), LAMBDA r :
                        /\ filter_nordeste => keep_row(r, cols.co_uf, betweenRaises, FALSE)
                        /\ read_cell(r[cols.codigo]) /= NaN)
          IN DedupFirst([i \in 1..Len(kept) |-> normalize(kept[i], cols, filter_nordeste)])

\* The rows of the file the filter retains (all of them with the filter off,
\* none when a mandatory column is unresolved).
RetainedCount ==
  LET cols == resolve(file.header)
  IN IF essential_missing(cols) THEN 0
     ELSE Len(SelectSeq(file.rows, LAMBDA r :
            filter_nordeste => keep_row(r, cols.co_uf, betweenRaises, FALSE)))

InRun == pc \in {"loop", "done", "failed"}

\* ------------------------------------------------------------ claims

\* C1: after any sequence of runs and batches the table holds exactly one
\* row per codigo ever accepted for insertion (no duplicates, none missing),
\* and no step changes or removes a row the table already holds: the table
\* only grows at its end.
C1_OneRowPerCodigo ==
  /\ [](UniqueCodes(tb_instituicao) /\ Codes(tb_instituicao) = accepted)
  /\ [][IsPrefix(tb_instituicao, tb_instituicao')]_vars

\* C1 witness: a later run met rows whose codigo the table already held (and
\* a batch before it held the same codigo twice or not).
C1_Witness ==
  /\ prior.completed /\ pc = "done" /\ ~dry_run
  /\ lastBatch.valid /\ lastBatch.existing > 0
  /\ Len(tb_instituicao) > 1

\* C2: once a (non dry-run) run over the file has completed, a further run
\* over the same file and store leaves the row count as it was, reports
\* zero new inserts per batch and in total, and reports as duplicates all
\* the rows it submits to the writer; it submits none: every retained row
\* is met in the table before the write and counted as skipped.
C2_SecondRunIdempotent ==
  (prior.completed /\ pc \in {"loop", "done"}) =>
    /\ Len(tb_instituicao) = Len(tbAtStart)
    /\ tb_instituicao = tbAtStart
    /\ inserted_total = 0
    /\ lastLine.new_inserts = 0
    /\ lastLine.duplicates_in_db = Len(lastBatch.insert_rows)
    /\ Len(lastBatch.insert_rows) = 0
    /\ (pc = "done" =>
          /\ summary.inserted = 0
          /\ summary.skipped = RetainedCount)

\* C2 witness: a second, writing run has finished over a table that the
\* first run filled, having met rows of the file again.
C2_Witness ==
  /\ prior.completed /\ pc = "done" /\ ~dry_run
  /\ Len(tb_instituicao) > 0 /\ summary.skipped > 0 /\ lastLine.chunk > 0

\* C3: when a batch submits several rows with one codigo not yet in the
\* table, the table then holds exactly one row of that codigo, equal to the
\* first of them; the write added one row per distinct codigo, the run's
\* insert count grew by as much, and every later occurrence is counted as a
\* duplicate.
C3_InBatchDuplicate ==
  (lastBatch.valid /\ ~dry_run /\ InRun) =>
    LET rows == lastBatch.insert_rows
        first(c) == Min({i \in 1..Len(rows) : rows[i].codigo = c})
    IN /\ \A c \in Codes(rows) :
            /\ Cardinality({j \in 1..Len(tb_instituicao) : tb_instituicao[j].codigo = c}) = 1
            /\ \E j \in 1..Len(tb_instituicao) : tb_instituicao[j] = rows[first(c)]
       /\ lastBatch.added = Cardinality(Codes(rows))
       /\ lastLine.duplicates_in_db = Len(rows) - Cardinality(Codes(rows))
       /\ inserted_total = Len(tb_instituicao) - Len(tbAtStart)

\* C3 witness: a batch of two rows with the same codigo and different names
\* was written: one row added, one duplicate.
C3_Witness ==
  /\ lastBatch.valid /\ ~dry_run /\ pc = "loop"
  /\ Len(lastBatch.insert_rows) = 2
  /\ lastBatch.insert_rows[1].codigo = lastBatch.insert_rows[2].codigo
  /\ lastBatch.insert_rows[1].nome /= lastBatch.insert_rows[2].nome
  /\ lastBatch.added = 1 /\ lastLine.duplicates_in_db = 1

\* C4 (as claimed): with the filter on, every row that reaches the table
\* has a region code in 21..29.
C4_AcceptedInRange ==
  filter_nordeste =>
    \A i \in 1..Len(tb_instituicao) :
      UF_LOW <= tb_instituicao[i].co_uf /\ tb_instituicao[i].co_uf <= UF_HIGH

\* C5: a retained row without codigo is never given to the writer nor
\* stored, adds one to the skipped total, and the other rows of its batch
\* are processed all the same.
C5_MissingCodigoSkipped ==
  /\ \A i \in 1..Len(tb_instituicao) : tb_instituicao[i].codigo /= str(NaN)
  /\ \A i \in 1..Len(conn_view) : conn_view[i].codigo /= str(NaN)
  /\ lastBatch.valid =>
       /\ \A i \in 1..Len(lastBatch.insert_rows) : lastBatch.insert_rows[i].codigo /= str(NaN)
       /\ skipped_total = lastBatch.skipped_before + lastBatch.missing + lastBatch.existing
       /\ Len(lastBatch.insert_rows) = lastBatch.kept - lastBatch.missing - lastBatch.existing
       /\ lastLine.new_inserts + lastBatch.missing <= lastBatch.kept
       /\ pos = lastBatch.from + lastBatch.read

\* C5 witness: a batch held a row without codigo and a row that was inserted.
C5_Witness ==
  /\ lastBatch.valid /\ ~dry_run /\ pc = "loop"
  /\ lastBatch.missing > 0 /\ lastBatch.added > 0
  /\ skipped_total > 0

\* C6: a dry run writes nothing (the table and the connection's view stay
\* as they were when the run started, the change counter stays 0) and
\* counts zero inserts, while it counts the rows read and reports per batch
\* the rows it would insert.
C6_DryRunFrame ==
  (dry_run /\ InRun) =>
    /\ tb_instituicao = tbAtStart
    /\ conn_view = tbAtStart
    /\ total_changes = 0
    /\ inserted_total = 0
    /\ processed_total = pos
    /\ lastBatch.valid =>
         /\ lastBatch.added = 0
         /\ lastLine.new_inserts = Len(lastBatch.src)
    /\ pc = "done" =>
         /\ summary.inserted = 0
         /\ summary.processed = Len(file.rows)

\* C6 witness: a dry run finished over a non-empty table with rows it would
\* have inserted.
C6_Witness ==
  /\ dry_run /\ pc = "done"
  /\ Len(tb_instituicao) > 0
  /\ lastLine.new_inserts > 0

\* C7 (as claimed): for a batch of a writing run, the progress line reports as new inserts the rows the
\* write added, as duplicates the submitted rows less those, the two adding
\* up to the rows submitted, as rows read the batch's size before the
\* filter and as after-filter its size after the filter.
C7_ProgressLineExact ==
  (lastLine.chunk > 0 /\ lastBatch.valid /\ ~dry_run) =>
    /\ lastLine.new_inserts = lastBatch.added
    /\ lastLine.duplicates_in_db = Len(lastBatch.insert_rows) - lastBatch.added
    /\ lastLine.new_inserts + lastLine.duplicates_in_db = Len(lastBatch.insert_rows)
    /\ lastLine.total_in_chunk = lastBatch.read
    /\ lastLine.total_filtered = lastBatch.kept

\* C8 (as claimed): when a mandatory field is unresolved the batch is
\* skipped: nothing inserted, zero inserts counted, its rows counted in the
\* skipped total, and the run goes on to the next batch.
C8_UnresolvedBatchSkipped ==
  (essential_missing(resolve(file.header)) /\ InRun) =>
    /\ tb_instituicao = tbAtStart
    /\ inserted_total = 0
    /\ skipped_total = pos
    /\ (pc = "done" => summary.skipped = Len(file.rows))

\* C9: each batch's write is committed before the next batch is read, in
\* normal and in fast mode: in a writing run the table on disk holds, at
\* every batch boundary and after a failure, what the batches completed so
\* far insert, and a run that finishes (a re-run after a failure included)
\* leaves exactly the table of an uninterrupted run, having inserted only
\* the rows that were missing.
C9_CommitPerBatch ==
  (~dry_run /\ InRun) =>
    /\ conn_view = tb_instituicao
    /\ IsPrefix(ExpectedUpTo(pos), tb_instituicao)
    /\ IsPrefix(tbAtStart, tb_instituicao)
    /\ inserted_total = Len(tb_instituicao) - Len(tbAtStart)
    /\ (pc = "done" => tb_instituicao = ExpectedUpTo(Len(file.rows)))

\* C9 witness: a run failed after committing rows, and the re-run finished
\* having inserted more.
C9_Witness ==
  /\ prior.partial /\ pc = "done" /\ ~dry_run
  /\ Len(tbAtStart) > 0 /\ inserted_total > 0

\* C10: in every row given to the writer, each of co_municipio and the
\* three enrollment counts is 0 when its column is unresolved, its cell
\* missing or its text no integer, and its own number otherwise; every
\* retained row with a new codigo is given to the writer whatever these
\* fields hold, and a writing run stores it.
C10_IntegerFieldsCoerced ==
  lastBatch.valid =>
    /\ Len(lastBatch.insert_rows) = Len(lastBatch.src)
    /\ \A i \in 1..Len(lastBatch.insert_rows) : \A f \in IntFields :
         LET cand == CANDIDATE_COLUMNS[f]
             present == {k \in 1..Len(cand) : cand[k] \in file.header}
             raw == lastBatch.src[i][cand[Min(present)]]
             stored == lastBatch.insert_rows[i][f]
         IN IF present = {} THEN stored = 0
            ELSE IF raw \in NA_VALUES THEN stored = 0
            ELSE IF \E k \in 1..Len(raw) : raw[k] \notin DigitChars THEN stored = 0
            ELSE ToDigits(stored) = raw
    /\ (~dry_run /\ InRun) =>
         \A c \in Codes(lastBatch.insert_rows) :
           \E j \in 1..Len(tb_instituicao) :
             /\ tb_instituicao[j].codigo = c
             /\ \E i \in 1..Len(lastBatch.insert_rows) :
                  tb_instituicao[j] = lastBatch.insert_rows[i]

\* C10 witness: a stored row whose qt_mat_prof text ("1x") is no integer and
\* became 0, whose co_municipio cell is missing and became 0, and whose
\* qt_mat_bas and qt_mat_esp kept their numbers.
C10_Witness ==
  /\ lastBatch.valid /\ ~dry_run /\ pc = "loop"
  /\ Len(lastBatch.insert_rows) = 1
  /\ "QT_MAT_PROF" \in file.header
  /\ lastBatch.src[1]["QT_MAT_PROF"] = <<"1", "x">>
  /\ lastBatch.src[1]["CO_MUNICIPIO"] = << >>
  /\ lastBatch.insert_rows[1].qt_mat_prof = 0
  /\ lastBatch.insert_rows[1].co_municipio = 0
  /\ lastBatch.insert_rows[1].qt_mat_bas = 21
  /\ lastBatch.insert_rows[1].qt_mat_esp = 7
  /\ Len(tb_instituicao) = 1 /\ tb_instituicao[1] = lastBatch.insert_rows[1]

\* C11: for every header and every field, find_column returns the earliest
\* entry of the field's candidate list that is in the header, and None
\* exactly when no candidate is in it; a header with both CO_ENTIDADE and
\* CO_ENTIDADE_MEC resolves codigo to CO_ENTIDADE.
C11_FirstCandidatePresent ==
  resolved.field /= None =>
    LET cand == CANDIDATE_COLUMNS[resolved.field]
    IN /\ resolved.column = None <=> \A i \in 1..Len(cand) : cand[i] \notin header_in
       /\ resolved.column /= None =>
            \E k \in 1..Len(cand) :
              /\ cand[k] = resolved.column
              /\ cand[k] \in header_in
              /\ \A j \in 1..(k - 1) : cand[j] \notin header_in
       /\ (resolved.field = "codigo" /\ {"CO_ENTIDADE", "CO_ENTIDADE_MEC"} \subseteq header_in)
            => resolved.column = "CO_ENTIDADE"

\* C11 witness: codigo was resolved to CO_ENTIDADE over a header that also
\* holds CO_ENTIDADE_MEC.
C11_Witness ==
  /\ resolved.field = "codigo"
  /\ {"CO_ENTIDADE", "CO_ENTIDADE_MEC"} \subseteq header_in
  /\ resolved.column = "CO_ENTIDADE"

====
